---- MODULE Spec2Model ----
(***************************************************************************)
(* Prompt library: the relational store (prompts, notes), the data-access  *)
(* layer (app/crud.py) and the request handlers (app/main.py).             *)
(*                                                                         *)
(* Spec      runs one request at a time: one action per handler.           *)
(* ConcSpec  runs two requests at once, each in its own database session,  *)
(*           split at the statements that touch the store.                 *)
(***************************************************************************)
EXTENDS Integers, Sequences, FiniteSets, TLC

\* Bounds of the model.
MaxPrompts == 2
MaxNotes == 2
MaxTime == 1
\* Prompts created while two requests interleave.
MaxConcPrompts == 1
\* Notes of the prompt that is exported and imported again.
MaxExportNotes == 2

VARIABLES db, clock, resp, sess

vars == <<db, clock, resp, sess>>

----------------------------------------------------------------------------
\* Text values: sequences of characters.

TAb == <<"A", "b">>
TC == <<"c", "_">>
Texts == {TAb, TC}

\* str.lower() / SQL lower() on the characters used here.
LowerChar(c) ==
    CASE c = "A" -> "a"
      [] c = "B" -> "b"
      [] c = "C" -> "c"
      [] OTHER -> c

Lower(s) == [i \in 1..Len(s) |-> LowerChar(s[i])]

\* s[i..] (1-based), the empty sequence past the end.
Drop(s, k) == SubSeq(s, k + 1, Len(s))

\* SQL LIKE: % matches any run of characters, _ matches exactly one.
RECURSIVE LikeMatch(_, _)
LikeMatch(pat, s) ==
    IF pat = <<>> THEN s = <<>>
    ELSE IF Head(pat) = "%"
         THEN \E k \in 0..Len(s) : LikeMatch(Tail(pat), Drop(s, k))
    ELSE IF s = <<>> THEN FALSE
    ELSE IF Head(pat) = "_" THEN LikeMatch(Tail(pat), Tail(s))
    ELSE Head(pat) = Head(s) /\ LikeMatch(Tail(pat), Tail(s))

\* column.ilike(pattern): lower(column) LIKE lower(pattern).
ILike(col, pat) == LikeMatch(Lower(pat), Lower(col))

\* The substring relation of the specification (case-insensitive).
Contains(s, term) ==
    \E k \in 0..(Len(s) - Len(term)) :
        SubSeq(Lower(s), k + 1, k + Len(term)) = Lower(term)

----------------------------------------------------------------------------
\* The store.

NoRow == [id |-> 0]
Found(row) == row.id # 0

PromptIds(d) == DOMAIN d.prompts
NoteIds(d) == DOMAIN d.notes

NotesOf(d, pid) == {n \in NoteIds(d) : d.notes[n].prompt_id = pid}

EmptyDb == [prompts |-> <<>>, notes |-> <<>>, prompt_seq |-> 1, note_seq |-> 1]

Min(a, b) == IF a < b THEN a ELSE b

\* datetime.utcnow(): the clock does not go back, and may have advanced.
UtcNow(t) == t..Min(t + 1, MaxTime)

\* Whether the engine enforces the declared foreign keys (app/database.py).
ForeignKeysEnforced == TRUE

\* notes.prompt_id REFERENCES prompts.id: the check made when a note is inserted.
\* The same table without the constraint.
NoForeignKey(d, pid) == TRUE

ForeignKeyOk(d, pid) == ForeignKeysEnforced => pid \in PromptIds(d)

\* ON DELETE CASCADE: the notes the engine removes with prompt row pid.
OnDeleteCascade(d, pid) == IF ForeignKeysEnforced THEN NotesOf(d, pid) ELSE {}

\* Column defaults of a new row: created_at and updated_at are two defaults,
\* each its own call of datetime.utcnow.
PromptRow(title, content, t1, t2) ==
    [title |-> title, content |-> content, created_at |-> t1, updated_at |-> t2]

NoteRow(pid, content, t1, t2) ==
    [prompt_id |-> pid, content |-> content, created_at |-> t1, updated_at |-> t2]

Without(f, S) == [x \in (DOMAIN f) \ S |-> f[x]]

----------------------------------------------------------------------------
\* app/crud.py, statement by statement.  A write returns [ok, db]: ok is
\* FALSE when the flush raises (the transaction is rolled back).

\* get_prompt: the row with its notes collection loaded (joinedload).
get_prompt(d, id) ==
    IF id \in PromptIds(d)
    THEN [id |-> id, title |-> d.prompts[id].title,
          content |-> d.prompts[id].content,
          created_at |-> d.prompts[id].created_at,
          updated_at |-> d.prompts[id].updated_at,
          notes |-> NotesOf(d, id)]
    ELSE NoRow

get_note(d, id) ==
    IF id \in NoteIds(d)
    THEN [id |-> id, prompt_id |-> d.notes[id].prompt_id,
          content |-> d.notes[id].content,
          created_at |-> d.notes[id].created_at,
          updated_at |-> d.notes[id].updated_at]
    ELSE NoRow

\* create_prompt: INSERT with the next identifier, commit.
InsertPrompt(d, title, content, t1, t2) ==
    [d EXCEPT !.prompts = @ @@ (d.prompt_seq :> PromptRow(title, content, t1, t2)),
              !.prompt_seq = @ + 1]

\* onupdate=datetime.utcnow: an UPDATE whose SET list does not carry updated_at
\* (the value assigned equals the loaded one) takes the column's onupdate
\* default, a further call of utcnow at the flush.
PromptOnUpdate(loaded, title, content, t) ==
    t = loaded.updated_at /\ (title # loaded.title \/ content # loaded.content)

NoteOnUpdate(loaded, content, t) == t = loaded.updated_at /\ content # loaded.content

\* update_prompt after the load: the session writes the attributes whose value
\* differs from the loaded one, in one UPDATE ... WHERE id = loaded.id; an
\* UPDATE that matches no row raises StaleDataError.  t is the utcnow() the
\* function assigned, t2 the one onupdate takes.
\* The same flush also stamping created_at.
FlushUpdatePromptStampsCreated(d, loaded, title, content, t, t2) ==
    IF loaded.id \notin PromptIds(d)
    THEN [ok |-> FALSE, db |-> d]
    ELSE [ok |-> TRUE,
          db |-> [d EXCEPT !.prompts[loaded.id] = PromptRow(title, content, t, t)]]

FlushUpdatePrompt(d, loaded, title, content, t, t2) ==
    IF title = loaded.title /\ content = loaded.content /\ t = loaded.updated_at
    THEN [ok |-> TRUE, db |-> d]
    ELSE IF loaded.id \notin PromptIds(d)
    THEN [ok |-> FALSE, db |-> d]
    ELSE [ok |-> TRUE,
          db |-> [d EXCEPT !.prompts[loaded.id] =
                    [title |-> IF title # loaded.title THEN title ELSE @.title,
                     content |-> IF content # loaded.content THEN content ELSE @.content,
                     created_at |-> @.created_at,
                     updated_at |-> IF t # loaded.updated_at THEN t ELSE t2]]]

\* delete_prompt after the load: the relationship's cascade deletes the loaded
\* notes, then the prompt row goes and the engine cascades to what is left.
\* A DELETE that matches no row only warns.
FlushDeletePrompt(d, loaded) ==
    LET gone == loaded.notes \cup
                (IF loaded.id \in PromptIds(d) THEN OnDeleteCascade(d, loaded.id) ELSE {})
    IN [d EXCEPT !.prompts = Without(@, {loaded.id}),
                 !.notes = Without(@, gone)]

\* create_note: INSERT, commit; the foreign key is checked by the engine.
InsertNote(d, pid, content, t1, t2) ==
    IF ForeignKeyOk(d, pid)
    THEN [ok |-> TRUE,
          db |-> [d EXCEPT !.notes = @ @@ (d.note_seq :> NoteRow(pid, content, t1, t2)),
                           !.note_seq = @ + 1]]
    ELSE [ok |-> FALSE, db |-> d]

FlushUpdateNote(d, loaded, content, t, t2) ==
    IF content = loaded.content /\ t = loaded.updated_at
    THEN [ok |-> TRUE, db |-> d]
    ELSE IF loaded.id \notin NoteIds(d)
    THEN [ok |-> FALSE, db |-> d]
    ELSE [ok |-> TRUE,
          db |-> [d EXCEPT !.notes[loaded.id] =
                    [prompt_id |-> @.prompt_id,
                     content |-> IF content # loaded.content THEN content ELSE @.content,
                     created_at |-> @.created_at,
                     updated_at |-> IF t # loaded.updated_at THEN t ELSE t2]]]

FlushDeleteNote(d, loaded) == [d EXCEPT !.notes = Without(@, {loaded.id})]

\* get_prompts: the rows of prompts LEFT OUTER JOIN notes (0 stands for the
\* NULL note of a prompt without notes), filtered, DISTINCT on the prompt.
JoinRows(d) ==
    {r \in (PromptIds(d) \X (NoteIds(d) \cup {0})) :
        \/ r[2] # 0 /\ d.notes[r[2]].prompt_id = r[1]
        \/ r[2] = 0 /\ NotesOf(d, r[1]) = {}}

SearchTerm(q) == <<"%">> \o q \o <<"%">>

RowMatches(d, r, q) ==
    \/ ILike(d.prompts[r[1]].title, SearchTerm(q))
    \/ ILike(d.prompts[r[1]].content, SearchTerm(q))
    \/ r[2] # 0 /\ ILike(d.notes[r[2]].content, SearchTerm(q))

Selected(d, q) ==
    IF q # <<>>
    THEN {r[1] : r \in {x \in JoinRows(d) : RowMatches(d, x, q)}}
    ELSE PromptIds(d)

\* ORDER BY updated_at DESC: every listing of S the engine may return.
OrderedDesc(d, S) ==
    {o \in [1..Cardinality(S) -> S] :
        /\ \A i, j \in 1..Cardinality(S) : i # j => o[i] # o[j]
        /\ \A i, j \in 1..Cardinality(S) :
              i < j => d.prompts[o[i]].updated_at >= d.prompts[o[j]].updated_at}

get_prompts(d, q) == OrderedDesc(d, Selected(d, q))

\* The crud functions called on their own: ret is the returned row's id, 0 for
\* None; ok is FALSE when the commit raises.  With no other session at work
\* the db.refresh after a commit finds the row it wrote.
create_prompt(d, title, content, t1, t2) ==
    [ok |-> TRUE, ret |-> d.prompt_seq, db |-> InsertPrompt(d, title, content, t1, t2)]

\* An update that inserts the row it does not find.
update_prompt_upsert(d, id, title, content, t, t2) ==
    LET db_prompt == get_prompt(d, id)
        w == FlushUpdatePrompt(d, db_prompt, title, content, t, t2)
    IN IF Found(db_prompt)
       THEN [ok |-> w.ok, ret |-> id, db |-> w.db]
       ELSE [ok |-> TRUE, ret |-> id,
             db |-> [d EXCEPT !.prompts = @ @@ (id :> PromptRow(title, content, t, t))]]

update_prompt(d, id, title, content, t, t2) ==
    LET db_prompt == get_prompt(d, id)
        w == FlushUpdatePrompt(d, db_prompt, title, content, t, t2)
    IN IF Found(db_prompt)
       THEN [ok |-> w.ok, ret |-> id, db |-> w.db]
       ELSE [ok |-> TRUE, ret |-> 0, db |-> d]

delete_prompt(d, id) ==
    LET db_prompt == get_prompt(d, id)
    IN IF Found(db_prompt)
       THEN [ok |-> TRUE, ret |-> TRUE, db |-> FlushDeletePrompt(d, db_prompt)]
       ELSE [ok |-> TRUE, ret |-> FALSE, db |-> d]

create_note(d, pid, content, t1, t2) ==
    LET w == InsertNote(d, pid, content, t1, t2)
    IN [ok |-> w.ok, ret |-> d.note_seq, db |-> w.db]

update_note(d, id, content, t, t2) ==
    LET db_note == get_note(d, id)
        w == FlushUpdateNote(d, db_note, content, t, t2)
    IN IF Found(db_note)
       THEN [ok |-> w.ok, ret |-> id, db |-> w.db]
       ELSE [ok |-> TRUE, ret |-> 0, db |-> d]

delete_note(d, id) ==
    LET db_note == get_note(d, id)
    IN IF Found(db_note)
       THEN [ok |-> TRUE, ret |-> TRUE, db |-> FlushDeleteNote(d, db_note)]
       ELSE [ok |-> TRUE, ret |-> FALSE, db |-> d]

----------------------------------------------------------------------------
\* JSON values: [t |-> kind, v |-> payload].

JStr(s) == [t |-> "str", v |-> s]
JNull == [t |-> "null", v |-> <<>>]
JNum == [t |-> "num", v |-> <<>>]
JList(seq) == [t |-> "list", v |-> seq]
JObj(f) == [t |-> "obj", v |-> f]
\* An uploaded file that is not JSON.
Malformed == [t |-> "bad", v |-> <<>>]

\* The characters of the keys the import looks up.
Chars(key) ==
    CASE key = "title" -> <<"t", "i", "t", "l", "e">>
      [] key = "content" -> <<"c", "o", "n", "t", "e", "n", "t">>
      [] key = "notes" -> <<"n", "o", "t", "e", "s">>

\* Python's `sub in s` on two str values.
IsSubstring(sub, s) ==
    \E k \in 0..(Len(s) - Len(sub)) : SubSeq(s, k + 1, k + Len(sub)) = sub

\* Python's `key in value`: "yes", "no", or "raise" (TypeError): a key of a
\* dict, an element of a list, a substring of a str; None and numbers raise.
PyIn(key, val) ==
    CASE val.t = "obj" -> IF key \in DOMAIN val.v THEN "yes" ELSE "no"
      [] val.t = "list" ->
            IF \E i \in 1..Len(val.v) : val.v[i].t = "str" /\ val.v[i].v = Chars(key)
            THEN "yes" ELSE "no"
      [] val.t = "str" -> IF IsSubstring(Chars(key), val.v) THEN "yes" ELSE "no"
      [] OTHER -> "raise"

\* pydantic's check of a `str` field.
IsStr(val) == val.t = "str"

\* datetime.isoformat(): the text of a timestamp.
Digits == <<"0", "1", "2", "3", "4", "5", "6", "7", "8", "9">>

RECURSIVE Decimal(_)
Decimal(n) ==
    IF n < 10 THEN <<Digits[n + 1]>>
    ELSE Decimal(n \div 10) \o <<Digits[(n % 10) + 1]>>

isoformat(t) == <<"T">> \o Decimal(t)

\* Every order of the set S as a sequence.
Orders(S) ==
    {o \in [1..Cardinality(S) -> S] :
        \A i, j \in 1..Cardinality(S) : i # j => o[i] # o[j]}

ExportNote(d, n) ==
    JObj([content |-> JStr(d.notes[n].content),
          created_at |-> JStr(isoformat(d.notes[n].created_at)),
          updated_at |-> JStr(isoformat(d.notes[n].updated_at))])

\* An export that leaves the notes out.
export_prompt_json_no_notes(d, id) ==
    {JObj([title |-> JStr(d.prompts[id].title),
           content |-> JStr(d.prompts[id].content),
           created_at |-> JStr(isoformat(d.prompts[id].created_at)),
           updated_at |-> JStr(isoformat(d.prompts[id].updated_at)),
           notes |-> JList(<<>>)])}

\* export_prompt_json: the documents the handler may answer for a stored
\* prompt (prompt.notes has no ORDER BY).
export_prompt_json(d, id) ==
    {JObj([title |-> JStr(d.prompts[id].title),
           content |-> JStr(d.prompts[id].content),
           created_at |-> JStr(isoformat(d.prompts[id].created_at)),
           updated_at |-> JStr(isoformat(d.prompts[id].updated_at)),
           notes |-> JList([i \in 1..Len(o) |-> ExportNote(d, o[i])])]) :
        o \in Orders(NotesOf(d, id))}

\* import_prompt up to the creation of the prompt: "ok", or the exception
\* raised, each of which the handler answers with a 400 whose detail names it
\* (data["title"] on a list or a str is a TypeError).
ImportHead(file) ==
    IF file.t = "bad" THEN "JSONDecodeError"
    ELSE IF PyIn("title", file) = "raise" THEN "TypeError"
    ELSE IF PyIn("title", file) = "no" THEN "required"
    ELSE IF PyIn("content", file) = "no" THEN "required"
    ELSE IF file.t # "obj" THEN "TypeError"
    ELSE IF ~(IsStr(file.v.title) /\ IsStr(file.v.content)) THEN "ValidationError"
    ELSE "ok"

ImportHeadOk(file) == ImportHead(file) = "ok"

\* The notes the loop iterates over.
ImportEntries(file) ==
    IF PyIn("notes", file) = "yes" /\ file.v.notes.t = "list"
    THEN file.v.notes.v
    ELSE <<>>

\* One pass of the loop body: "skip", "create", or the exception raised
\* (note_data["content"] on a list or a str is a TypeError).
EntryAction(e) ==
    CASE PyIn("content", e) = "raise" -> "TypeError"
      [] PyIn("content", e) = "no" -> "skip"
      [] OTHER -> IF e.t # "obj" THEN "TypeError"
                  ELSE IF ~IsStr(e.v.content) THEN "ValidationError"
                  ELSE "create"

\* The loop over the notes of an import, from the state run = [db, clock]:
\* every outcome [db, clock, status, detail] the clock allows.  An exception
\* leaves what is already committed and ends the request with a 400.
RECURSIVE ImportNotes(_, _, _)
ImportNotes(run, pid, entries) ==
    IF entries = <<>>
    THEN {[db |-> run.db, clock |-> run.clock, status |-> 200, detail |-> ""]}
    ELSE CASE EntryAction(Head(entries)) = "skip" ->
                ImportNotes(run, pid, Tail(entries))
           [] EntryAction(Head(entries)) # "create" ->
                {[db |-> run.db, clock |-> run.clock, status |-> 400,
                  detail |-> EntryAction(Head(entries))]}
           [] OTHER ->
                UNION {UNION {LET w == create_note(run.db, pid, Head(entries).v.content.v, t1, t2)
                              IN IF w.ok
                                 THEN ImportNotes([db |-> w.db, clock |-> t2], pid, Tail(entries))
                                 ELSE {[db |-> run.db, clock |-> t2, status |-> 400,
                                        detail |-> "IntegrityError"]} :
                              t2 \in UtcNow(t1)} :
                       t1 \in UtcNow(run.clock)}

\* An import that fills in a missing content with the empty text.
import_prompt_lenient(d, clk, file) ==
    IF file.t = "obj" /\ "title" \in DOMAIN file.v /\ IsStr(file.v.title)
    THEN {[db |-> create_prompt(d, file.v.title.v, <<>>, clk, clk).db, clock |-> clk,
           status |-> 200, detail |-> "", id |-> d.prompt_seq]}
    ELSE {[db |-> d, clock |-> clk, status |-> 400, detail |-> ImportHead(file), id |-> 0]}

\* import_prompt as a whole, from store d at clock value clk: every outcome
\* [db, clock, status, detail, id], id the new prompt's (0 when none is made).
import_prompt(d, clk, file) ==
    IF ImportHeadOk(file)
    THEN UNION {UNION {LET new_prompt == create_prompt(d, file.v.title.v, file.v.content.v, t1, t2)
                       IN {[db |-> out.db, clock |-> out.clock, status |-> out.status,
                            detail |-> out.detail, id |-> new_prompt.ret] :
                           out \in ImportNotes([db |-> new_prompt.db, clock |-> t2],
                                               new_prompt.ret, ImportEntries(file))} :
                       t2 \in UtcNow(t1)} :
                t1 \in UtcNow(clk)}
    ELSE {[db |-> d, clock |-> clk, status |-> 400, detail |-> ImportHead(file), id |-> 0]}

----------------------------------------------------------------------------
\* Requests and responses.

NoFile == JNull

\* The answer to the latest request: the handler, the HTTP status, the id of
\* the row the data-access call returned (0 for none), the listing, what the
\* detail of an import's 400 names, and the document of an export.
Resp(op, status, id, body) ==
    [op |-> op, status |-> status, id |-> id, body |-> body, detail |-> "",
     file |-> NoFile]

\* A database session, one per request in flight: the handler, the statement
\* it is at, the request's arguments, the row it has loaded, the clock value it
\* has read, the notes an import has still to go through, the id of the row it
\* has just committed, and the status of the request it answered last.
Idle == [op |-> "idle", pc |-> "idle", id |-> 0, title |-> <<>>, content |-> <<>>,
         loaded |-> NoRow, t |-> 0, entries |-> <<>>, row |-> 0, status |-> 0]

Answer(status) == [Idle EXCEPT !.status = status]

Sessions == {1, 2}

Init ==
    /\ db = EmptyDb
    /\ clock = 0
    /\ resp = Resp("none", 0, 0, <<>>)
    /\ sess = [s \in Sessions |-> Idle]

\* The uploaded files tried: each shape the handler tells apart.
ObjNotes(notes) == JObj([title |-> JStr(TAb), content |-> JStr(TC), notes |-> notes])

Files ==
    { Malformed,
      JObj([title |-> JStr(TAb)]),
      JObj([content |-> JStr(TC)]),
      JList(<<JStr(Chars("title")), JStr(Chars("content"))>>),
      JStr(TAb),
      JStr(Chars("title") \o Chars("content")),
      JObj([title |-> JNull, content |-> JStr(TC)]),
      JObj([title |-> JStr(TC), content |-> JStr(TAb)]),
      ObjNotes(JNull),
      ObjNotes(JList(<<JObj([text |-> JStr(TAb)]), JObj([content |-> JStr(TC)])>>)),
      ObjNotes(JList(<<JObj([content |-> JNull]), JObj([content |-> JStr(TAb)])>>)),
      ObjNotes(JList(<<JObj([content |-> JStr(TC)]), JNum>>)),
      ObjNotes(JList(<<JStr(TAb), JObj([content |-> JStr(TC)])>>)),
      ObjNotes(JList(<<JStr(Chars("content")), JObj([content |-> JStr(TAb)])>>)) }

\* str.strip() on the search box's text.
RECURSIVE LStrip(_)
LStrip(s) == IF s # <<>> /\ Head(s) = " " THEN LStrip(Tail(s)) ELSE s

Reverse(s) == [i \in 1..Len(s) |-> s[Len(s) + 1 - i]]

Strip(s) == Reverse(LStrip(Reverse(LStrip(s))))

Queries == { <<>>, <<"B">>, <<"a", "B">>, <<" ", "c", " ">>, <<"_">> }

\* search_prompts: the term handed to get_prompts (<<>> for None).
SearchQuery(q) == IF q # <<>> THEN Strip(q) ELSE <<>>

----------------------------------------------------------------------------
\* The handlers of app/main.py, one request at a time.

CreatePrompt(title, content) ==
    /\ \E t1 \in UtcNow(clock) : \E t2 \in UtcNow(t1) :
          LET w == create_prompt(db, title, content, t1, t2)
          IN /\ db' = w.db
             /\ clock' = t2
             /\ resp' = Resp("create_prompt", 200, w.ret, <<>>)
    /\ UNCHANGED sess

UpdatePrompt(id, title, content) ==
    /\ \E t \in UtcNow(clock) : \E t2 \in UtcNow(t) :
          LET w == update_prompt(db, id, title, content, t, t2)
          IN /\ (Found(get_prompt(db, id)) /\ PromptOnUpdate(get_prompt(db, id), title, content, t))
                \/ t2 = t
             /\ db' = w.db
             /\ clock' = IF w.ret # 0 THEN t2 ELSE clock
             /\ resp' = Resp("update_prompt",
                             IF ~w.ok THEN 500 ELSE IF w.ret = 0 THEN 404 ELSE 200,
                             w.ret, <<>>)
    /\ UNCHANGED sess

DeletePrompt(id) ==
    /\ LET w == delete_prompt(db, id)
       IN /\ db' = w.db
          /\ resp' = Resp("delete_prompt", IF w.ret THEN 200 ELSE 404, 0, <<>>)
    /\ UNCHANGED <<clock, sess>>

CreateNote(pid, content) ==
    /\ IF Found(get_prompt(db, pid))
       THEN \E t1 \in UtcNow(clock) : \E t2 \in UtcNow(t1) :
               LET w == create_note(db, pid, content, t1, t2)
               IN /\ db' = w.db
                  /\ clock' = t2
                  /\ resp' = Resp("create_note", IF w.ok THEN 200 ELSE 500, w.ret, <<>>)
       ELSE /\ resp' = Resp("create_note", 404, 0, <<>>)
            /\ UNCHANGED <<db, clock>>
    /\ UNCHANGED sess

UpdateNote(id, content) ==
    /\ \E t \in UtcNow(clock) : \E t2 \in UtcNow(t) :
          LET w == update_note(db, id, content, t, t2)
          IN /\ (Found(get_note(db, id)) /\ NoteOnUpdate(get_note(db, id), content, t))
                \/ t2 = t
             /\ db' = w.db
             /\ clock' = IF w.ret # 0 THEN t2 ELSE clock
             /\ resp' = Resp("update_note",
                             IF ~w.ok THEN 500 ELSE IF w.ret = 0 THEN 404 ELSE 200,
                             w.ret, <<>>)
    /\ UNCHANGED sess

DeleteNote(id) ==
    /\ LET w == delete_note(db, id)
       IN /\ db' = w.db
          /\ resp' = Resp("delete_note", IF w.ret THEN 200 ELSE 404, 0, <<>>)
    /\ UNCHANGED <<clock, sess>>

SearchPrompts(q) ==
    /\ \E listing \in get_prompts(db, SearchQuery(q)) :
          resp' = Resp("search", 200, 0, listing)
    /\ UNCHANGED <<db, clock, sess>>

ImportPrompt(file) ==
    /\ \E out \in import_prompt(db, clock, file) :
          /\ db' = out.db
          /\ clock' = out.clock
          /\ resp' = [Resp("import", out.status, out.id, <<>>) EXCEPT !.detail = out.detail]
    /\ UNCHANGED sess

\* export_prompt_json: the document of a stored prompt is the answer.
ExportPrompt(id) ==
    /\ IF Found(get_prompt(db, id))
       THEN \E file \in export_prompt_json(db, id) :
               resp' = [Resp("export", 200, id, <<>>) EXCEPT !.file = file]
       ELSE resp' = Resp("export", 404, 0, <<>>)
    /\ UNCHANGED <<db, clock, sess>>

\* Room for one more prompt and for k more notes within the bounds.
Room(k) == db.prompt_seq <= MaxPrompts /\ db.note_seq + k <= MaxNotes + 1

FileNotes(file) == IF ImportHeadOk(file) THEN Len(ImportEntries(file)) ELSE 0

Next ==
    \/ \E title \in Texts, content \in Texts : Room(0) /\ CreatePrompt(title, content)
    \/ \E id \in 1..db.prompt_seq, title \in Texts, content \in Texts :
          UpdatePrompt(id, title, content)
    \/ \E id \in 1..db.prompt_seq : DeletePrompt(id)
    \/ \E pid \in 1..db.prompt_seq, content \in Texts :
          db.note_seq <= MaxNotes /\ CreateNote(pid, content)
    \/ \E id \in 1..db.note_seq, content \in Texts : UpdateNote(id, content)
    \/ \E id \in 1..db.note_seq : DeleteNote(id)
    \/ \E file \in Files : Room(FileNotes(file)) /\ ImportPrompt(file)

Spec == Init /\ [][Next]_vars

----------------------------------------------------------------------------
\* Two requests at a time, each in its own session (get_db), interleaved at
\* the statements that reach the store.  A flush and its commit are one
\* transaction and one step; the db.refresh that follows is a SELECT in a new
\* transaction and a step of its own, which raises InvalidRequestError when
\* the row is gone.  An exception no handler catches is answered 500; inside
\* import_prompt it is answered 400.

ConcTitles == {<<TAb, TAb>>, <<TC, TAb>>, <<TAb, TC>>}

ConcFiles ==
    { JObj([title |-> JStr(TAb)]),
      ObjNotes(JList(<<JObj([content |-> JStr(TC)]), JObj([content |-> JNull])>>)),
      ObjNotes(JList(<<JStr(TC), JObj([content |-> JStr(TAb)])>>)) }

IsIdle(s) == sess[s].pc = "idle"
At(s, op, pc) == sess[s].op = op /\ sess[s].pc = pc

\* The session after a commit, about to refresh the row it wrote.
Committed(op, pc, id, row) == [Idle EXCEPT !.op = op, !.pc = pc, !.id = id, !.row = row]

\* create_prompt: the INSERT and commit.
CCreatePrompt(s, title, content) ==
    /\ IsIdle(s)
    /\ db.prompt_seq <= MaxConcPrompts
    /\ \E t1 \in UtcNow(clock) : \E t2 \in UtcNow(t1) :
          LET w == create_prompt(db, title, content, t1, t2)
          IN /\ db' = w.db
             /\ clock' = t2
             /\ sess' = [sess EXCEPT ![s] = Committed("create_prompt", "refresh", w.ret, w.ret)]
    /\ UNCHANGED resp

\* create_prompt: db.refresh(db_prompt), then the listing is answered.
CCreatePromptRefresh(s) ==
    /\ At(s, "create_prompt", "refresh")
    /\ sess' = [sess EXCEPT ![s] = Answer(IF sess[s].row \in PromptIds(db) THEN 200 ELSE 500)]
    /\ UNCHANGED <<db, clock, resp>>

\* update_prompt, to the assignment of updated_at: the SELECT and the clock.
CUpdatePromptLoad(s, id, title, content) ==
    /\ IsIdle(s)
    /\ IF Found(get_prompt(db, id))
       THEN \E t \in UtcNow(clock) :
               /\ clock' = t
               /\ sess' = [sess EXCEPT ![s] =
                             [Idle EXCEPT !.op = "update_prompt", !.pc = "flush",
                                          !.id = id, !.title = title, !.content = content,
                                          !.loaded = get_prompt(db, id), !.t = t]]
       ELSE /\ sess' = [sess EXCEPT ![s] = Answer(404)]
            /\ UNCHANGED clock
    /\ UNCHANGED <<db, resp>>

\* update_prompt: db.commit().
CUpdatePromptFlush(s) ==
    /\ At(s, "update_prompt", "flush")
    /\ \E t2 \in UtcNow(clock) :
          LET fires == PromptOnUpdate(sess[s].loaded, sess[s].title, sess[s].content, sess[s].t)
              w == FlushUpdatePrompt(db, sess[s].loaded, sess[s].title, sess[s].content,
                                     sess[s].t, t2)
          IN /\ fires \/ t2 = clock
             /\ db' = w.db
             /\ clock' = t2
             /\ sess' = [sess EXCEPT ![s] =
                           IF w.ok
                           THEN Committed("update_prompt", "refresh", sess[s].id, sess[s].id)
                           ELSE Answer(500)]
    /\ UNCHANGED resp

\* update_prompt: db.refresh(db_prompt), then the card is answered.
CUpdatePromptRefresh(s) ==
    /\ At(s, "update_prompt", "refresh")
    /\ sess' = [sess EXCEPT ![s] = Answer(IF sess[s].row \in PromptIds(db) THEN 200 ELSE 500)]
    /\ UNCHANGED <<db, clock, resp>>

CDeletePromptLoad(s, id) ==
    /\ IsIdle(s)
    /\ sess' = [sess EXCEPT ![s] =
                  IF Found(get_prompt(db, id))
                  THEN [Idle EXCEPT !.op = "delete_prompt", !.pc = "flush", !.id = id,
                                    !.loaded = get_prompt(db, id)]
                  ELSE Answer(404)]
    /\ UNCHANGED <<db, clock, resp>>

CDeletePromptFlush(s) ==
    /\ At(s, "delete_prompt", "flush")
    /\ db' = FlushDeletePrompt(db, sess[s].loaded)
    /\ sess' = [sess EXCEPT ![s] = Answer(200)]
    /\ UNCHANGED <<clock, resp>>

\* create_note: the handler's check that the prompt exists.
CCreateNoteCheck(s, pid, content) ==
    /\ IsIdle(s)
    /\ sess' = [sess EXCEPT ![s] =
                  IF Found(get_prompt(db, pid))
                  THEN [Idle EXCEPT !.op = "create_note", !.pc = "insert", !.id = pid,
                                    !.content = content]
                  ELSE Answer(404)]
    /\ UNCHANGED <<db, clock, resp>>

\* create_note: crud.create_note's INSERT and commit.
CCreateNoteInsert(s) ==
    /\ At(s, "create_note", "insert")
    /\ db.note_seq <= MaxNotes
    /\ \E t1 \in UtcNow(clock) : \E t2 \in UtcNow(t1) :
          LET w == create_note(db, sess[s].id, sess[s].content, t1, t2)
          IN /\ db' = w.db
             /\ clock' = t2
             /\ sess' = [sess EXCEPT ![s] =
                           IF w.ok
                           THEN Committed("create_note", "refresh", sess[s].id, w.ret)
                           ELSE Answer(500)]
    /\ UNCHANGED resp

\* create_note: db.refresh(db_note).
CCreateNoteRefresh(s) ==
    /\ At(s, "create_note", "refresh")
    /\ sess' = [sess EXCEPT ![s] =
                  IF sess[s].row \in NoteIds(db) THEN [@ EXCEPT !.pc = "reread"]
                  ELSE Answer(500)]
    /\ UNCHANGED <<db, clock, resp>>

\* create_note: the handler loads the prompt again and renders it.  A prompt
\* deleted meanwhile is None in the template, which is not among the sources:
\* it renders (200) or fails (500).
CCreateNoteReread(s) ==
    /\ At(s, "create_note", "reread")
    /\ \E status \in {200, 500} :
          /\ Found(get_prompt(db, sess[s].id)) => status = 200
          /\ sess' = [sess EXCEPT ![s] = Answer(status)]
    /\ UNCHANGED <<db, clock, resp>>

CUpdateNoteLoad(s, id, content) ==
    /\ IsIdle(s)
    /\ IF Found(get_note(db, id))
       THEN \E t \in UtcNow(clock) :
               /\ clock' = t
               /\ sess' = [sess EXCEPT ![s] =
                             [Idle EXCEPT !.op = "update_note", !.pc = "flush", !.id = id,
                                          !.content = content,
                                          !.loaded = get_note(db, id), !.t = t]]
       ELSE /\ sess' = [sess EXCEPT ![s] = Answer(404)]
            /\ UNCHANGED clock
    /\ UNCHANGED <<db, resp>>

CUpdateNoteFlush(s) ==
    /\ At(s, "update_note", "flush")
    /\ \E t2 \in UtcNow(clock) :
          LET fires == NoteOnUpdate(sess[s].loaded, sess[s].content, sess[s].t)
              w == FlushUpdateNote(db, sess[s].loaded, sess[s].content, sess[s].t, t2)
          IN /\ fires \/ t2 = clock
             /\ db' = w.db
             /\ clock' = t2
             /\ sess' = [sess EXCEPT ![s] =
                           IF w.ok
                           THEN Committed("update_note", "refresh", sess[s].id, sess[s].id)
                           ELSE Answer(500)]
    /\ UNCHANGED resp

\* update_note: db.refresh(db_note), then the card is answered.
CUpdateNoteRefresh(s) ==
    /\ At(s, "update_note", "refresh")
    /\ sess' = [sess EXCEPT ![s] = Answer(IF sess[s].row \in NoteIds(db) THEN 200 ELSE 500)]
    /\ UNCHANGED <<db, clock, resp>>

CDeleteNoteLoad(s, id) ==
    /\ IsIdle(s)
    /\ sess' = [sess EXCEPT ![s] =
                  IF Found(get_note(db, id))
                  THEN [Idle EXCEPT !.op = "delete_note", !.pc = "flush", !.id = id,
                                    !.loaded = get_note(db, id)]
                  ELSE Answer(404)]
    /\ UNCHANGED <<db, clock, resp>>

CDeleteNoteFlush(s) ==
    /\ At(s, "delete_note", "flush")
    /\ db' = FlushDeleteNote(db, sess[s].loaded)
    /\ sess' = [sess EXCEPT ![s] = Answer(200)]
    /\ UNCHANGED <<clock, resp>>

\* import_prompt, to the commit of the prompt.
CImportHead(s, file) ==
    /\ IsIdle(s)
    /\ db.prompt_seq <= MaxConcPrompts
    /\ IF ImportHeadOk(file)
       THEN \E t1 \in UtcNow(clock) : \E t2 \in UtcNow(t1) :
               LET new_prompt == create_prompt(db, file.v.title.v, file.v.content.v, t1, t2)
               IN /\ db' = new_prompt.db
                  /\ clock' = t2
                  /\ sess' = [sess EXCEPT ![s] =
                                [Committed("import", "refresh_prompt", new_prompt.ret,
                                           new_prompt.ret)
                                   EXCEPT !.entries = ImportEntries(file)]]
       ELSE /\ sess' = [sess EXCEPT ![s] = Answer(400)]
            /\ UNCHANGED <<db, clock>>
    /\ UNCHANGED resp

\* import_prompt: the db.refresh(db_prompt) of crud.create_prompt.
CImportHeadRefresh(s) ==
    /\ At(s, "import", "refresh_prompt")
    /\ sess' = [sess EXCEPT ![s] =
                  IF sess[s].row \in PromptIds(db) THEN [@ EXCEPT !.pc = "notes"]
                  ELSE Answer(400)]
    /\ UNCHANGED <<db, clock, resp>>

\* import_prompt: one pass of the loop over the notes to the commit of the
\* note, or the end of the loop.
CImportNote(s) ==
    /\ At(s, "import", "notes")
    /\ IF sess[s].entries = <<>>
       THEN /\ sess' = [sess EXCEPT ![s] = Answer(200)]
            /\ UNCHANGED <<db, clock>>
       ELSE CASE EntryAction(Head(sess[s].entries)) = "skip" ->
                    /\ sess' = [sess EXCEPT ![s].entries = Tail(@)]
                    /\ UNCHANGED <<db, clock>>
              [] EntryAction(Head(sess[s].entries)) # "create" ->
                    /\ sess' = [sess EXCEPT ![s] = Answer(400)]
                    /\ UNCHANGED <<db, clock>>
              [] OTHER ->
                    /\ db.note_seq <= MaxNotes
                    /\ \E t1 \in UtcNow(clock) : \E t2 \in UtcNow(t1) :
                          LET w == create_note(db, sess[s].id,
                                               Head(sess[s].entries).v.content.v, t1, t2)
                          IN /\ db' = w.db
                             /\ clock' = t2
                             /\ sess' = [sess EXCEPT ![s] =
                                           IF w.ok
                                           THEN [@ EXCEPT !.pc = "refresh_note",
                                                          !.row = w.ret,
                                                          !.entries = Tail(@)]
                                           ELSE Answer(400)]
    /\ UNCHANGED resp

\* import_prompt: the db.refresh(db_note) of crud.create_note.
CImportNoteRefresh(s) ==
    /\ At(s, "import", "refresh_note")
    /\ sess' = [sess EXCEPT ![s] =
                  IF sess[s].row \in NoteIds(db) THEN [@ EXCEPT !.pc = "notes"]
                  ELSE Answer(400)]
    /\ UNCHANGED <<db, clock, resp>>

ConcNext ==
    \E s \in Sessions :
        \/ \E tc \in ConcTitles : CCreatePrompt(s, tc[1], tc[2])
        \/ CCreatePromptRefresh(s)
        \/ \E id \in 1..db.prompt_seq, tc \in ConcTitles : CUpdatePromptLoad(s, id, tc[1], tc[2])
        \/ CUpdatePromptFlush(s)
        \/ CUpdatePromptRefresh(s)
        \/ \E id \in 1..db.prompt_seq : CDeletePromptLoad(s, id)
        \/ CDeletePromptFlush(s)
        \/ \E pid \in 1..db.prompt_seq, content \in Texts : CCreateNoteCheck(s, pid, content)
        \/ CCreateNoteInsert(s)
        \/ CCreateNoteRefresh(s)
        \/ CCreateNoteReread(s)
        \/ \E id \in 1..db.note_seq, content \in Texts : CUpdateNoteLoad(s, id, content)
        \/ CUpdateNoteFlush(s)
        \/ CUpdateNoteRefresh(s)
        \/ \E id \in 1..db.note_seq : CDeleteNoteLoad(s, id)
        \/ CDeleteNoteFlush(s)
        \/ \E file \in ConcFiles : CImportHead(s, file)
        \/ CImportHeadRefresh(s)
        \/ CImportNote(s)
        \/ CImportNoteRefresh(s)

ConcSpec == Init /\ [][ConcNext]_vars

----------------------------------------------------------------------------
\* Search, from every store of up to MaxPrompts prompts and MaxNotes notes.

\* The store after creating the prompts rows[i] = <<title, content, created_at,
\* updated_at>> in turn.
RECURSIVE WithPrompts(_, _)
WithPrompts(d, rows) ==
    IF rows = <<>> THEN d
    ELSE WithPrompts(create_prompt(d, rows[1][1], rows[1][2], rows[1][3], rows[1][4]).db,
                     Tail(rows))

\* ... and then the notes rows[i] = <<prompt_id, content>>.
RECURSIVE WithNoteRows(_, _)
WithNoteRows(d, rows) ==
    IF rows = <<>> THEN d
    ELSE WithNoteRows(create_note(d, rows[1][1], rows[1][2], MaxTime, MaxTime).db, Tail(rows))

SeqsUpTo(S, n) == UNION {[1..k -> S] : k \in 0..n}

PromptRows ==
    {ps \in SeqsUpTo(Texts \X Texts \X (0..MaxTime) \X (0..MaxTime), MaxPrompts) :
        /\ \A i \in DOMAIN ps : ps[i][3] <= ps[i][4]
        /\ \A i, j \in DOMAIN ps : i < j => ps[i][3] <= ps[j][3]}

SearchInit ==
    /\ \E ps \in PromptRows :
          \E ns \in SeqsUpTo((1..Len(ps)) \X Texts, MaxNotes) :
             db = WithNoteRows(WithPrompts(EmptyDb, ps), ns)
    /\ clock = MaxTime
    /\ resp = Resp("none", 0, 0, <<>>)
    /\ sess = [s \in Sessions |-> Idle]

SearchNext == \E q \in Queries : SearchPrompts(q)

SearchSpec == SearchInit /\ [][SearchNext]_vars

----------------------------------------------------------------------------
\* Export and import of the exported document, from every store that holds one
\* prompt with up to MaxExportNotes notes.

RECURSIVE WithNotes(_, _, _)
WithNotes(d, pid, contents) ==
    IF contents = <<>> THEN d
    ELSE WithNotes(create_note(d, pid, Head(contents), 0, 0).db, pid, Tail(contents))

RoundTripInit ==
    /\ db \in {WithNotes(create_prompt(EmptyDb, title, content, 0, 0).db, 1, contents) :
                  title \in Texts, content \in Texts,
                  contents \in UNION {[1..n -> Texts] : n \in 0..MaxExportNotes}}
    /\ clock = MaxTime
    /\ resp = Resp("none", 0, 0, <<>>)
    /\ sess = [s \in Sessions |-> Idle]

\* The upload of the document the latest export answered.
ImportExported ==
    /\ resp.op = "export"
    /\ resp.status = 200
    /\ db.prompt_seq <= MaxPrompts
    /\ ImportPrompt(resp.file)

RoundTripNext ==
    \/ \E id \in 1..db.prompt_seq : ExportPrompt(id)
    \/ ImportExported

RoundTripSpec == RoundTripInit /\ [][RoundTripNext]_vars

----------------------------------------------------------------------------
\* Properties.

Range(f) == {f[i] : i \in DOMAIN f}

\* C1: in every state reached by requests run one after another or
\* interleaved, every stored note's prompt_id is the id of a stored prompt (so
\* no note of a deleted prompt can be fetched).
NoteOwnerExists == \A n \in NoteIds(db) : db.notes[n].prompt_id \in PromptIds(db)

\* A create_note request is past its check that the prompt exists, and the
\* prompt has since been deleted together with the note it owned.
StaleCheckAfterCascade ==
    \E s \in Sessions :
        /\ At(s, "create_note", "insert")
        /\ sess[s].id \notin PromptIds(db)
        /\ db.note_seq > 1
        /\ NoteIds(db) = {}

\* The prompts that contain the term, case-insensitively, in their title,
\* their content or the content of one of their notes.
SubstringMatches(d, term) ==
    {p \in PromptIds(d) :
        \/ Contains(d.prompts[p].title, term)
        \/ Contains(d.prompts[p].content, term)
        \/ \E n \in NotesOf(d, p) : Contains(d.notes[n].content, term)}

\* C2: a search with a term lists exactly the prompts that contain the term as
\* a case-insensitive substring, each once, by updated_at descending; a search
\* with no term lists all prompts by updated_at descending.
SearchIsSubstringFilter ==
    [][\A q \in Queries :
          SearchPrompts(q) =>
             LET body == resp'.body
             IN /\ Range(body) = IF SearchQuery(q) = <<>> THEN PromptIds(db)
                                 ELSE SubstringMatches(db, SearchQuery(q))
                /\ \A i, j \in DOMAIN body : i # j => body[i] # body[j]
                /\ \A i, j \in DOMAIN body :
                      i < j => db.prompts[body[i]].updated_at >= db.prompts[body[j]].updated_at]_vars

\* C3: an update or delete of a prompt or note whose id is not stored returns
\* None / False, is answered 404 and not with a server error, and leaves the
\* store as it was.
NotFoundIsNoOp ==
    [][/\ \A id \in 1..db.prompt_seq, title \in Texts, content \in Texts :
             id \notin PromptIds(db) /\ resp'.op = "update_prompt"
                /\ UpdatePrompt(id, title, content) =>
                /\ update_prompt(db, id, title, content, clock, clock).ret = 0
                /\ resp'.status = 404 /\ db' = db
       /\ \A id \in 1..db.prompt_seq :
             id \notin PromptIds(db) /\ resp'.op = "delete_prompt" /\ DeletePrompt(id) =>
                /\ delete_prompt(db, id).ret = FALSE
                /\ resp'.status = 404 /\ db' = db
       /\ \A id \in 1..db.note_seq, content \in Texts :
             id \notin NoteIds(db) /\ resp'.op = "update_note" /\ UpdateNote(id, content) =>
                /\ update_note(db, id, content, clock, clock).ret = 0
                /\ resp'.status = 404 /\ db' = db
       /\ \A id \in 1..db.note_seq :
             id \notin NoteIds(db) /\ resp'.op = "delete_note" /\ DeleteNote(id) =>
                /\ delete_note(db, id).ret = FALSE
                /\ resp'.status = 404 /\ db' = db]_vars

\* An update of a prompt that is not stored was answered 404 while the store
\* held prompts and notes.
NotFoundAnswered ==
    /\ resp.op = "update_prompt"
    /\ resp.status = 404
    /\ PromptIds(db) # {}
    /\ NoteIds(db) # {}

LacksRequired(file) == file.t = "obj" /\ ~({"title", "content"} \subseteq DOMAIN file.v)

\* C4: the import of a JSON document without the content field (or without the
\* title field) is answered 400 and creates no prompt and no note.
ImportMissingFieldRejected ==
    [][\A file \in Files :
          LacksRequired(file) /\ resp'.op = "import" /\ ImportPrompt(file) =>
             resp'.status = 400 /\ db' = db]_vars

\* An import was refused for a missing required field while the store held a
\* prompt.
MissingFieldRefused ==
    /\ resp.op = "import"
    /\ resp.status = 400
    /\ resp.detail = "required"
    /\ PromptIds(db) # {}

\* The number of notes of prompt p in store d whose content is c.
CountNotes(d, p, c) == Cardinality({n \in NotesOf(d, p) : d.notes[n].content = c})

\* C5: exporting a stored prompt and importing the exported document creates
\* exactly one prompt, under a fresh id, with the original's title and content
\* and with notes of the same contents (as a multiset); the original prompt and
\* every stored note are unchanged.
ExportImportRoundTrip ==
    [][ImportExported =>
             LET p == resp.id
                 n == resp'.id
             IN /\ p \in PromptIds(db)
                /\ resp.file \in export_prompt_json(db, p)
                /\ resp'.status = 200
                /\ n \notin PromptIds(db)
                /\ PromptIds(db') = PromptIds(db) \cup {n}
                /\ db'.prompts[n].title = db.prompts[p].title
                /\ db'.prompts[n].content = db.prompts[p].content
                /\ \A q \in PromptIds(db) : db'.prompts[q] = db.prompts[q]
                /\ \A m \in NoteIds(db) : m \in NoteIds(db') /\ db'.notes[m] = db.notes[m]
                /\ \A m \in NoteIds(db') \ NoteIds(db) : db'.notes[m].prompt_id = n
                /\ \A c \in Texts : CountNotes(db', n, c) = CountNotes(db, p, c)]_vars

\* An import has answered 200 and its prompt is the twin of another stored
\* prompt that owns MaxExportNotes notes.
RoundTripDone ==
    /\ resp.op = "import"
    /\ resp.status = 200
    /\ \E p \in PromptIds(db) \ {resp.id} :
          /\ Cardinality(NotesOf(db, p)) = MaxExportNotes
          /\ Cardinality(NotesOf(db, resp.id)) = MaxExportNotes
          /\ db.prompts[p].title = db.prompts[resp.id].title
          /\ \E c1, c2 \in Texts : c1 # c2 /\ CountNotes(db, p, c1) > 0 /\ CountNotes(db, p, c2) > 0

\* C6: when an update_prompt request commits, the stored title and content are
\* the pair that request submitted (last write wins, the whole record), also
\* when another update of the same prompt committed after this one had loaded
\* the row.
LastWriteWinsWholeRecord ==
    [][\A s \in Sessions :
          CUpdatePromptFlush(s) /\ sess'[s].pc = "refresh" /\ sess[s].id \in PromptIds(db') =>
             /\ db'.prompts[sess[s].id].title = sess[s].title
             /\ db'.prompts[sess[s].id].content = sess[s].content]_vars

\* C7: a created prompt, fetched by the id returned, has the title and content
\* submitted, and its created_at equals its updated_at.
CreateThenFetch ==
    [][\A title \in Texts, content \in Texts :
          resp'.op = "create_prompt" /\ CreatePrompt(title, content) =>
             LET p == get_prompt(db', resp'.id)
             IN /\ Found(p)
                /\ p.title = title
                /\ p.content = content
                /\ p.created_at = p.updated_at]_vars

\* C8: the update of a stored prompt sets its title and content to the values
\* submitted and its updated_at to a value no less than before, and leaves its
\* created_at, its id, its notes and every other prompt unchanged.
UpdatePromptFrame ==
    [][resp'.op = "update_prompt" =>
       \A id \in PromptIds(db), title \in Texts, content \in Texts :
          UpdatePrompt(id, title, content) =>
             /\ resp'.status = 200 /\ resp'.id = id
             /\ PromptIds(db') = PromptIds(db)
             /\ db'.prompts[id].title = title
             /\ db'.prompts[id].content = content
             /\ db'.prompts[id].updated_at >= db.prompts[id].updated_at
             /\ db'.prompts[id].created_at = db.prompts[id].created_at
             /\ db'.notes = db.notes
             /\ \A q \in PromptIds(db) \ {id} : db'.prompts[q] = db.prompts[q]]_vars

\* An update was answered 200 for a prompt that owns a note, beside another
\* prompt, and its updated_at is past its created_at.
PromptUpdated ==
    /\ resp.op = "update_prompt"
    /\ resp.status = 200
    /\ resp.id \in PromptIds(db)
    /\ NotesOf(db, resp.id) # {}
    /\ PromptIds(db) # {resp.id}
    /\ db.prompts[resp.id].updated_at > db.prompts[resp.id].created_at

\* The entries of an import's notes list that hold a string content.
ValidEntry(e) == e.t = "obj" /\ "content" \in DOMAIN e.v /\ IsStr(e.v.content)

CountEntries(entries, c) ==
    Cardinality({i \in DOMAIN entries : ValidEntry(entries[i]) /\ entries[i].v.content.v = c})

\* C9: an import of a document with title and content creates the prompt from
\* them and imports exactly the entries of the notes list that hold a valid
\* content, skipping each of the others on its own.
ImportSkipsInvalidNotes ==
    [][\A file \in Files :
          ImportHeadOk(file) /\ resp'.op = "import" /\ ImportPrompt(file) =>
             LET n == resp'.id
             IN /\ n \in PromptIds(db') \ PromptIds(db)
                /\ db'.prompts[n].title = file.v.title.v
                /\ db'.prompts[n].content = file.v.content.v
                /\ \A c \in Texts :
                      CountNotes(db', n, c) = CountEntries(ImportEntries(file), c)]_vars

\* C10: whenever an import is answered 400, the store holds the prompts and
\* notes it held before the request.
Import400LeavesStore ==
    [][\A file \in Files :
          resp'.op = "import" /\ resp'.status = 400 /\ ImportPrompt(file) =>
             db'.prompts = db.prompts /\ db'.notes = db.notes]_vars

====
